---- MODULE Spec2Model ----
(***************************************************************************)
(* Model of the calcium-imaging backend (src/app.py): the request handlers *)
(* /upload, /upload-mask and /analyze and the functions they call          *)
(* (process_video, process_mask, analyze_calcium_intensity), under Spec;   *)
(* /import-csv, /export-csv and /export-all-csv with calculate_df, and the *)
(* baseline step on tables of records, under SpecTable.                    *)
(*                                                                         *)
(* A numpy array is a record [shape, data]: its shape tuple and its        *)
(* elements in row-major (C) order, so that indexing, np.newaxis,          *)
(* np.repeat and slicing are computed on the elements as numpy computes    *)
(* them.  A float produced by np.mean is the exact rational [num, den];    *)
(* IEEE rounding is not modelled.                                          *)
(***************************************************************************)
EXTENDS Integers, Sequences, FiniteSets, TLC

VARIABLES pc, handler, video, mask_in, csv_in, selected, frames, masks, cells,
          canon, colors, mask_rgb, labels, df, baselines, temp_plot, plot_data,
          response, files, wrote

\* what a request arrives with
inputs == <<handler, video, mask_in, csv_in, selected>>

\* the mask preview: palette, coloured raster and the IDs drawn on it
preview == <<colors, mask_rgb, labels>>

\* the plot step: the name of the temporary file and the image read back
plotting == <<temp_plot, plot_data>>

vars == <<pc, inputs, frames, masks, cells, canon, preview, df, baselines,
          plotting, response, files, wrote>>

-----------------------------------------------------------------------------
(* Bounds of the model *)

\* raw label values of the enumerated masks are 0..MaxLabel
MaxLabel == 3

\* a video container yields 0..MaxFrames frames before a read fails
MaxFrames == 2

\* worker threads of the threaded server (app.run(..., threaded=True))
Reqs == {1, 2}

\* a cell has 1..MaxRows rows in the tables handed to the CSV handlers
MaxRows == 12

-----------------------------------------------------------------------------
(* numpy arrays *)

RECURSIVE Prod(_)
Prod(s) == IF s = <<>> THEN 1 ELSE Head(s) * Prod(Tail(s))

Arr(shape, data) == [shape |-> shape, data |-> data]

ndim(a) == Len(a.shape)

\* a.shape[-1]
LastDim(a) == a.shape[Len(a.shape)]

Front(s) == SubSeq(s, 1, Len(s) - 1)

\* np.array([]) : the array built from an empty Python list
EmptyArr == Arr(<<0>>, <<>>)

\* a local that holds no array yet
NoArray == Arr(<<>>, <<>>)

\* a[np.newaxis, ...]
NewAxisFront(a) == Arr(<<1>> \o a.shape, a.data)

\* a[..., np.newaxis]
NewAxisBack(a) == Arr(a.shape \o <<1>>, a.data)

\* np.repeat(a, 3, axis=0): every sub-array along axis 0 three times in a row
Repeat3First(a) ==
    LET n == Prod(Tail(a.shape))
    IN  Arr(<<3 * a.shape[1]>> \o Tail(a.shape),
            [i \in 1..(3 * Len(a.data)) |->
                a.data[((i - 1) \div (3 * n)) * n + ((i - 1) % n) + 1]])

\* np.repeat(a, 3, axis=-1): every element of the last axis three times in a row
Repeat3Last(a) ==
    Arr(Front(a.shape) \o <<3 * LastDim(a)>>,
        [i \in 1..(3 * Len(a.data)) |-> a.data[((i - 1) \div 3) + 1]])

\* a[..., :3]
FirstThreeLast(a) ==
    LET c == LastDim(a)
        k == IF c < 3 THEN c ELSE 3
        n == IF c = 0 THEN 0 ELSE (Len(a.data) \div c) * k
    IN  Arr(Front(a.shape) \o <<k>>,
            [i \in 1..n |-> a.data[((i - 1) \div k) * c + ((i - 1) % k) + 1]])

\* a[..., ch]   (ch is 0-based and < a.shape[-1])
TakeChannel(a, ch) ==
    LET c == LastDim(a)
    IN  Arr(Front(a.shape),
            [i \in 1..(Len(a.data) \div c) |-> a.data[(i - 1) * c + ch + 1]])

\* a[0]   (a.shape[0] >= 1)
Index0(a) ==
    LET rest == Tail(a.shape)
    IN  Arr(rest, SubSeq(a.data, 1, Prod(rest)))

\* a[k] for a 0-based k < a.shape[0]: the k-th sub-array along axis 0
IndexK(a, k) ==
    LET rest == Tail(a.shape)
        n == Prod(rest)
    IN  Arr(rest, SubSeq(a.data, k * n + 1, (k + 1) * n))

\* np.array(list_of_frames) for frames that all have the shape fshape
Stack(fshape, list) ==
    LET n == Prod(fshape)
    IN  IF list = <<>> THEN EmptyArr
        ELSE Arr(<<Len(list)>> \o fshape,
                 [i \in 1..(Len(list) * n) |->
                     list[((i - 1) \div n) + 1].data[((i - 1) % n) + 1]])

-----------------------------------------------------------------------------
(* Video sources and process_video *)

\* pixel data of the enumerated sources: a constant, or a ramp that gives every
\* element its own value (uint8)
PixelData(fill, n) ==
    IF fill = "ramp" THEN [i \in 1..n |-> i % 256]
    ELSE IF fill = "c100" THEN [i \in 1..n |-> 100]
    ELSE [i \in 1..n |-> 0]

TiffSource(shape, fill) ==
    [kind |-> "tiff", arr |-> Arr(shape, PixelData(fill, Prod(shape)))]

\* a generic container: cap.read() succeeds nframes times, every frame h x w x 3
ContainerSource(nframes, h, w, fill) ==
    [kind |-> "video", nframes |-> nframes, h |-> h, w |-> w, fill |-> fill]

MissingSource == [kind |-> "missing"]

\* the k-th (1-based) frame cap.read() returns
CapFrame(v, k) ==
    LET n == v.h * v.w * 3
    IN  Arr(<<v.h, v.w, 3>>,
            IF v.fill = "ramp" THEN [i \in 1..n |-> ((k - 1) * n + i) % 256]
            ELSE PixelData(v.fill, n))

\* while True: ret, frame = cap.read(); if not ret: break; frames.append(frame)
RECURSIVE ReadLoop(_, _)
ReadLoop(v, list) ==
    LET ret == Len(list) < v.nframes
    IN  IF ~ret THEN list
        ELSE ReadLoop(v, Append(list, CapFrame(v, Len(list) + 1)))

\* tifffile.imread(path), or the cap.read loop followed by np.array(frames)
LoadFrames(v) ==
    IF v.kind = "tiff" THEN v.arr
    ELSE Stack(<<v.h, v.w, 3>>, ReadLoop(v, <<>>))

\* "Ensure frames are in the correct format (N, H, W, C)"
EnsureNHWC(a) ==
    IF ndim(a) = 2 THEN NewAxisBack(NewAxisFront(a))
    ELSE IF ndim(a) = 3
         THEN IF LastDim(a) \in {1, 3, 4} THEN NewAxisFront(a)
              ELSE NewAxisBack(a)
         ELSE a

ConvertToRGBKeepAlpha(a) ==
    IF LastDim(a) = 1 THEN Repeat3Last(a) ELSE a

\* "Convert to RGB if necessary"
ConvertToRGB(a) ==
    IF LastDim(a) = 1 THEN Repeat3Last(a)
    ELSE IF LastDim(a) = 4 THEN FirstThreeLast(a)
    ELSE a

process_video(v) == ConvertToRGB(EnsureNHWC(LoadFrames(v)))

-----------------------------------------------------------------------------
(* Label images: reduction to 2-D, np.unique, relabeling *)

Range(f) == {f[i] : i \in DOMAIN f}

Min(S) == CHOOSE x \in S : \A y \in S : x <= y

RECURSIVE SortedSeq(_)
SortedSeq(S) ==
    IF S = {} THEN <<>> ELSE <<Min(S)>> \o SortedSeq(S \ {Min(S)})

\* np.unique(a): the distinct values, ascending
np_unique(a) == SortedSeq(Range(a.data))

KeepZero(u) == u

\* u[u != 0]
NonZero(u) == SelectSeq(u, LAMBDA x : x # 0)

\* np.arange(1, n + 1)
Arange1(n) == [k \in 1..n |-> k]

\* analyze_video: "if len(masks.shape) > 2: ..." (the same code follows model.eval)
AnalyzeReduceMask(m) ==
    IF ndim(m) > 2
    THEN IF LastDim(m) = 3 THEN TakeChannel(m, 1)
         ELSE IF ndim(m) = 3 THEN Index0(m) ELSE Index0(Index0(m))
    ELSE m

\* process_mask: "Ensure mask is 2D"
ProcessMaskReduce(m) ==
    IF ndim(m) > 2
    THEN IF ndim(m) = 3 /\ m.shape[3] = 3 THEN TakeChannel(m, 0)
         ELSE IF ndim(m) = 3 THEN Index0(m) ELSE Index0(Index0(m))
    ELSE m

\* enumerate(unique_cells, 1): the pairs (new id, original id) in order
EnumerateOffByOne(ids) ==
    [k \in 1..Len(ids) |-> [new_id |-> k - 1, original_id |-> ids[k]]]

EnumerateDescending(ids) ==
    [k \in 1..Len(ids) |-> [new_id |-> Len(ids) + 1 - k, original_id |-> ids[k]]]

Enumerate1(ids) ==
    [k \in 1..Len(ids) |-> [new_id |-> k, original_id |-> ids[k]]]

AssignWhereAtMost(target, mask, original_id, new_id) ==
    Arr(target.shape,
        [i \in DOMAIN target.data |->
            IF mask.data[i] <= original_id THEN new_id ELSE target.data[i]])

\* relabeled_mask[mask == original_id] = new_id
AssignWhere(target, mask, original_id, new_id) ==
    Arr(target.shape,
        [i \in DOMAIN target.data |->
            IF mask.data[i] = original_id THEN new_id ELSE target.data[i]])

\* np.zeros_like(mask)
ZerosLike(mask) == Arr(mask.shape, [i \in DOMAIN mask.data |-> 0])

\* for new_id, original_id in items: relabeled_mask[mask == original_id] = new_id
RECURSIVE RelabelLoop(_, _, _)
RelabelLoop(target, mask, items) ==
    IF items = <<>> THEN target
    ELSE RelabelLoop(
            AssignWhere(target, mask, Head(items).original_id, Head(items).new_id),
            mask, Tail(items))

\* {original_id: sequential_id for sequential_id, original_id in enumerate(ids, 1)}
\* (a later pair with the same key replaces an earlier one)
original_to_sequential_id_map(ids) ==
    LET items == Enumerate1(ids)
        last(o) == CHOOSE k \in DOMAIN items :
                      /\ items[k].original_id = o
                      /\ \A j \in DOMAIN items : items[j].original_id = o => j <= k
    IN  [o \in {items[k].original_id : k \in DOMAIN items} |-> items[last(o)].new_id]

\* process_mask, from the reduced 2-D mask to the relabeled one
ProcessMaskRelabel(mask) ==
    LET unique_original_cell_ids == NonZero(np_unique(mask))
        idmap == original_to_sequential_id_map(unique_original_cell_ids)
        relabeled_mask == RelabelLoop(ZerosLike(mask), mask,
                                      Enumerate1(unique_original_cell_ids))
    IN  [mask |-> relabeled_mask,
         idmap |-> idmap,
         unique_cells |-> NonZero(np_unique(relabeled_mask)),
         cell_ids |-> [k \in 1..Len(unique_original_cell_ids) |->
                          idmap[unique_original_cell_ids[k]]]]

AnalyzeRenumberOnly(masks_) ==
    LET unique_cells == NonZero(np_unique(masks_))
    IN  [mask |-> masks_,
         unique_cells |-> Arange1(Len(unique_cells)),
         relabeled |-> unique_cells # Arange1(Len(unique_cells))]

\* analyze_calcium_intensity: "Ensure cells are labeled sequentially from 1 to N"
AnalyzeRelabel(masks_) ==
    LET unique_cells == NonZero(np_unique(masks_))
    IN  IF unique_cells # Arange1(Len(unique_cells))
        THEN [mask |-> RelabelLoop(ZerosLike(masks_), masks_, Enumerate1(unique_cells)),
              unique_cells |-> Arange1(Len(unique_cells)),
              relabeled |-> TRUE]
        ELSE [mask |-> masks_,
              unique_cells |-> unique_cells,
              relabeled |-> FALSE]

-----------------------------------------------------------------------------
(* Intensity extraction and baseline normalisation *)

\* floats are exact rationals num/den; den = 0 is inf (num # 0) or nan (num = 0)
Rat(n, d) == [num |-> n, den |-> d]

IsFinite(x) == x.den # 0

IsNaN(x) == x.den = 0 /\ x.num = 0

RatEq(x, y) == IsFinite(x) /\ IsFinite(y) /\ x.num * y.den = y.num * x.den

RatLess(x, y) == x.num * y.den < y.num * x.den

RatAdd(x, y) == Rat(x.num * y.den + y.num * x.den, x.den * y.den)

\* x / y in float64 arithmetic: x / 0 is inf or nan, with a warning only
RatDiv(x, y) == Rat(x.num * y.den, x.den * y.num)

RECURSIVE SumSeq(_)
SumSeq(q) == IF q = <<>> THEN 0 ELSE Head(q) + SumSeq(Tail(q))

\* np.mean of integer samples (of no sample: nan)
Mean(q) == Rat(SumSeq(q), Len(q))

\* frame[cell_mask] with cell_mask = (masks == cell_id)
RECURSIVE Selected(_, _, _, _)
Selected(frame, mask, cell_id, i) ==
    IF i > Len(mask.data) THEN <<>>
    ELSE (IF mask.data[i] = cell_id THEN <<frame.data[i]>> ELSE <<>>)
         \o Selected(frame, mask, cell_id, i + 1)

FluorescenceFrameRed(frames_, frame_idx) ==
    LET frame == IndexK(frames_, frame_idx)
    IN  IF ndim(frame) = 3 THEN TakeChannel(frame, 0) ELSE frame

\* the frame of index frame_idx, reduced to its green channel when it has channels
FluorescenceFrame(frames_, frame_idx) ==
    LET frame == IndexK(frames_, frame_idx)
    IN  IF ndim(frame) = 3 THEN TakeChannel(frame, 1) ELSE frame

IntensityRecordsCellMajor(frames_, mask, unique_cells) ==
    LET n == Len(unique_cells)
        F == frames_.shape[1]
    IN  [i \in 1..(F * n) |->
            LET frame_idx == (i - 1) % F
                cell_id == unique_cells[((i - 1) \div F) + 1]
            IN  [frame |-> frame_idx,
                 cell_id |-> cell_id,
                 intensity |-> Mean(Selected(FluorescenceFrame(frames_, frame_idx),
                                             mask, cell_id, 1))]]

IntensityRecordsFromOne(frames_, mask, unique_cells) ==
    LET n == Len(unique_cells)
        F == frames_.shape[1]
    IN  [i \in 1..(F * n) |->
            LET frame_idx == (i - 1) \div n
                cell_id == unique_cells[((i - 1) % n) + 1]
            IN  [frame |-> frame_idx + 1,
                 cell_id |-> cell_id,
                 intensity |-> Mean(Selected(FluorescenceFrame(frames_, frame_idx),
                                             mask, cell_id, 1))]]

\* the two nested loops that fill `results`
IntensityRecords(frames_, mask, unique_cells) ==
    LET n == Len(unique_cells)
        F == frames_.shape[1]
    IN  [i \in 1..(F * n) |->
            LET frame_idx == (i - 1) \div n
                cell_id == unique_cells[((i - 1) % n) + 1]
            IN  [frame |-> frame_idx,
                 cell_id |-> cell_id,
                 intensity |-> Mean(Selected(FluorescenceFrame(frames_, frame_idx),
                                             mask, cell_id, 1))]]

\* df[df['cell_id'] == cell_id], as the sequence of its intensities in row order
CellIntensities(records, cell_id) ==
    LET rows == SelectSeq(records, LAMBDA rec : rec.cell_id = cell_id)
    IN  [k \in 1..Len(rows) |-> rows[k].intensity]

RECURSIVE RatSum(_)
RatSum(q) == IF q = <<>> THEN Rat(0, 1) ELSE RatAdd(Head(q), RatSum(Tail(q)))

\* the index of a smallest element of a non-empty sequence of floats (first on ties)
ArgMin(q) ==
    CHOOSE k \in 1..Len(q) :
        /\ \A j \in 1..Len(q) : ~RatLess(q[j], q[k])
        /\ \A j \in 1..(k - 1) : RatLess(q[k], q[j])

RemoveAt(q, k) == SubSeq(q, 1, k - 1) \o SubSeq(q, k + 1, Len(q))

FirstN(q, n) == SubSeq(q, 1, n)

\* .nsmallest(n, 'intensity')['intensity']
RECURSIVE NSmallest(_, _)
NSmallest(q, n) ==
    IF n = 0 \/ q = <<>> THEN <<>>
    ELSE <<q[ArgMin(q)]>> \o NSmallest(RemoveAt(q, ArgMin(q)), n - 1)

\* the number of smallest samples the fallback baseline averages
FallbackCount == 10

BaselineOfSmallest(records, cell_id) ==
    LET all == CellIntensities(records, cell_id)
        k == IF FallbackCount < Len(all) THEN FallbackCount ELSE Len(all)
        smallest == NSmallest(all, k)
        total == RatSum(smallest)
    IN  Rat(total.num, total.den * Len(smallest))

\* baselines[cell_id]
Baseline(records, cell_id) ==
    LET first_frame_data ==
            SelectSeq(records, LAMBDA rec : rec.cell_id = cell_id /\ rec.frame = 0)
        all == CellIntensities(records, cell_id)
        k == IF FallbackCount < Len(all) THEN FallbackCount ELSE Len(all)
        smallest == NSmallest(all, k)
        total == RatSum(smallest)
    IN  IF first_frame_data # <<>> THEN first_frame_data[1].intensity
        ELSE Rat(total.num, total.den * Len(smallest))

\* the dict `baselines`, keyed by the cell ids of the table
Baselines(records) ==
    [cell_id \in {records[i].cell_id : i \in 1..Len(records)} |->
        Baseline(records, cell_id)]

\* df['normalized_intensity'] = intensity / baselines[cell_id]
WithNormalized(records) ==
    [i \in 1..Len(records) |->
        [frame |-> records[i].frame,
         cell_id |-> records[i].cell_id,
         intensity |-> records[i].intensity,
         normalized_intensity |->
             RatDiv(records[i].intensity, Baselines(records)[records[i].cell_id])]]

IsPrefix(p, q) == Len(p) <= Len(q) /\ SubSeq(q, 1, Len(p)) = p

\* analyze_calcium_intensity(frames, masks): the table, or the exception raised
\* (a boolean index must match the leading axes of the frame it indexes; an
\* empty `results` gives a DataFrame without columns)
analyze_calcium_intensity(frames_, masks_) ==
    LET rl == AnalyzeRelabel(masks_)
        results == IntensityRecords(frames_, rl.mask, rl.unique_cells)
    IN  IF frames_.shape[1] > 0 /\ rl.unique_cells # <<>>
           /\ ~IsPrefix(masks_.shape, FluorescenceFrame(frames_, 0).shape)
        THEN [ok |-> FALSE, error |-> "IndexError: boolean index did not match",
              mask |-> rl.mask, unique_cells |-> rl.unique_cells, df |-> <<>>,
              baselines |-> <<>>]
        ELSE IF results = <<>>
        THEN [ok |-> FALSE, error |-> "KeyError: 'cell_id'",
              mask |-> rl.mask, unique_cells |-> rl.unique_cells, df |-> <<>>,
              baselines |-> <<>>]
        ELSE [ok |-> TRUE, error |-> "",
              mask |-> rl.mask, unique_cells |-> rl.unique_cells,
              df |-> WithNormalized(results),
              baselines |-> Baselines(results)]

-----------------------------------------------------------------------------
(* The mask preview: palette, coloured raster, the IDs drawn on the cells.   *)
(* Colour components are the integers the code produces; where a float       *)
(* product is an exact integer the IEEE result may differ by one unit,       *)
(* which is not modelled.                                                    *)

\* the (r, g, b) a hue sector selects from v, p, q, t
SectorRGB(sector, v, p, q, t) ==
    CASE sector = 0 -> <<v, t, p>>
      [] sector = 1 -> <<q, v, p>>
      [] sector = 2 -> <<p, v, t>>
      [] sector = 3 -> <<p, q, v>>
      [] sector = 4 -> <<t, p, v>>
      [] OTHER      -> <<v, p, q>>

\* tuple(int(x * 255) for x in colorsys.hsv_to_rgb(i / n, 0.8, 0.9)):
\* sector int(6h) % 6, f = 6h - int(6h) = m / n, v = 0.9, p = 0.18,
\* q = 0.9 (1 - 0.8 f), t = 0.9 (1 - 0.8 (1 - f)), each truncated after * 255
hsv_to_rgb_255(i, n) ==
    LET sector == ((6 * i) \div n) % 6
        m == (6 * i) % n
    IN  SectorRGB(sector, 229, 45,
                  (2295 * (10 * n - 8 * m)) \div (100 * n),
                  (2295 * (2 * n + 8 * m)) \div (100 * n))

\* analyze_video: colors, one tuple per cell, hue = i / max(n_cells, 1)
AnalyzeColors(n_cells) ==
    [k \in 1..n_cells |->
        hsv_to_rgb_255(k - 1, IF n_cells > 1 THEN n_cells ELSE 1)]

\* (hsv_colors * 255).astype(np.uint8): the hue byte of np.linspace(0, 1, n,
\* endpoint=False)[i]; saturation and value bytes are 204 and 229
HueByte(i, n) == (255 * i) \div n

\* cv2.cvtColor(..., COLOR_HSV2RGB) of one 8-bit pixel (hue, 204, 229): OpenCV
\* reads an 8-bit hue on the scale 0..179 (30 units per sector) and wraps a
\* larger one around; the components are rounded to nearest after * 255
HSV2RGB(hue) ==
    LET h == hue % 180
        sector == h \div 30
        m == h % 30
    IN  SectorRGB(sector, 229, 46,
                  (458 * (150 - 4 * m) + 150) \div 300,
                  (458 * (30 + 4 * m) + 150) \div 300)

\* (x * 0.7).astype(np.uint8)
Darken(x) == (7 * x) \div 10

\* process_mask: colors, n_colors rows darkened to 0.7
ProcessMaskColors(n_colors) ==
    [k \in 1..n_colors |->
        LET rgb == HSV2RGB(HueByte(k - 1, n_colors))
        IN  <<Darken(rgb[1]), Darken(rgb[2]), Darken(rgb[3])>>]

\* np.zeros((*mask.shape, 3), dtype=np.uint8)
ZerosRGB(mask) == Arr(mask.shape \o <<3>>, [x \in 1..(3 * Len(mask.data)) |-> 0])

\* the indices i of the loop "for i, cell_id in enumerate(unique_cells)" whose
\* cell_mask = (mask == cell_id) selects pixel px
Painters(mask, unique_cells, px) ==
    {i \in 1..Len(unique_cells) : mask.data[px] = unique_cells[i]}

Max(S) == CHOOSE x \in S : \A y \in S : y <= x

ColorCellsShifted(img, mask, unique_cells, colors_) ==
    Arr(img.shape,
        [x \in 1..Len(img.data) |->
            LET hits == Painters(mask, unique_cells, ((x - 1) \div 3) + 1)
            IN  IF hits = {} THEN img.data[x]
                ELSE colors_[(Max(hits) % Len(unique_cells)) + 1][((x - 1) % 3) + 1]])

\* for i, cell_id in enumerate(unique_cells): mask_rgb[cell_mask] = colors[i];
\* a pixel keeps the colour of the last iteration that selected it, or its own
ColorCells(img, mask, unique_cells, colors_) ==
    Arr(img.shape,
        [x \in 1..Len(img.data) |->
            LET hits == Painters(mask, unique_cells, ((x - 1) \div 3) + 1)
            IN  IF hits = {} THEN img.data[x]
                ELSE colors_[Max(hits)][((x - 1) % 3) + 1]])

\* np.where(mask == cell_id): the row and column indices of the cell's pixels
WhereY(mask, cell_id) ==
    LET px == SelectSeq([x \in 1..Len(mask.data) |-> x],
                        LAMBDA x : mask.data[x] = cell_id)
    IN  [k \in 1..Len(px) |-> (px[k] - 1) \div mask.shape[2]]

WhereX(mask, cell_id) ==
    LET px == SelectSeq([x \in 1..Len(mask.data) |-> x],
                        LAMBDA x : mask.data[x] = cell_id)
    IN  [k \in 1..Len(px) |-> (px[k] - 1) % mask.shape[2]]

\* int(np.mean(coords))
Center(coords) == SumSeq(coords) \div Len(coords)

\* analyze_video, "Add cell numbers": per cell of unique_cells the text drawn
\* (str(int(cell_id)), kept as the integer it prints) and where
AnalyzeLabels(mask, unique_cells) ==
    [i \in 1..Len(unique_cells) |->
        [region |-> unique_cells[i],
         label |-> unique_cells[i],
         center |-> <<Center(WhereX(mask, unique_cells[i])),
                      Center(WhereY(mask, unique_cells[i]))>>]]

\* process_mask, "Add cell IDs as text": str(cell_id) of the relabeled mask at
\* the centroid of the cell
ProcessMaskLabels(mask, unique_cells) ==
    [i \in 1..Len(unique_cells) |->
        [region |-> unique_cells[i],
         label |-> unique_cells[i],
         center |-> <<Center(WhereX(mask, unique_cells[i])),
                      Center(WhereY(mask, unique_cells[i]))>>]]

-----------------------------------------------------------------------------
(* The inputs of the requests *)

MaxSide == 4

Sides == 1..MaxSide

TiffShapes ==
    {<<h, w>> : h \in Sides, w \in Sides}
    \cup {<<a, b, c>> : a \in Sides, b \in Sides, c \in Sides}
    \cup {<<n, h, w, c>> : n \in {1, 2}, h \in {1, 2}, w \in {1, 2}, c \in {1, 3, 4}}

\* the files posted to /upload
VideoFiles ==
    {TiffSource(sh, fill) : sh \in TiffShapes, fill \in {"ramp", "c100"}}
    \cup {ContainerSource(n, 2, 2, "ramp") : n \in 0..MaxFrames}

Labels == 0..MaxLabel

MaskShapes == {<<1, 2>>, <<2, 2>>, <<3, 1>>}

\* every 2-D label image of a shape of MaskShapes
LabelImages(shape) == {Arr(shape, d) : d \in [1..Prod(shape) -> Labels]}

\* the 4 x 4 label image {0,0,5,5; 0,0,5,5; 7,7,0,0; 7,7,0,0}
ScenarioAMask ==
    Arr(<<4, 4>>, <<0, 0, 5, 5,  0, 0, 5, 5,  7, 7, 0, 0,  7, 7, 0, 0>>)

\* masks with more than two axes: H x W x 3 (planes r, g, b interleaved),
\* slices x H x W, and 1 x 1 x H x W
MultiAxisMasks ==
    { Arr(<<2, 2, 3>>, <<1, 0, 0,  1, 2, 0,  0, 2, 0,  0, 3, 0>>),
      Arr(<<2, 2, 3>>, <<0, 0, 0,  0, 0, 0,  0, 0, 0,  0, 0, 0>>),
      Arr(<<2, 2, 2>>, <<2, 2, 0, 3,  1, 1, 1, 1>>),
      Arr(<<1, 1, 2, 2>>, <<0, 3, 3, 1>>) }

\* a 4 x 6 label image of 24 cells of one pixel each, labelled 1..24
ManyCellsMask == Arr(<<4, 6>>, [x \in 1..24 |-> x])

\* the files posted to /upload-mask, or named by mask_path
MaskFiles ==
    UNION {LabelImages(sh) : sh \in MaskShapes}
    \cup {ScenarioAMask, ManyCellsMask} \cup MultiAxisMasks

NoMask == [given |-> FALSE]

GivenMask(m) == [given |-> TRUE, arr |-> m]

\* the videos named by video_path in /analyze
AnalyzeVideos ==
    { TiffSource(<<3, 4, 4>>, "c100"),
      TiffSource(<<3, 2, 2>>, "c100"),
      TiffSource(<<3, 2, 2>>, "ramp"),
      TiffSource(<<2, 2, 2>>, "zero"),
      TiffSource(<<2, 2>>, "ramp"),
      TiffSource(<<2, 2, 2, 3>>, "ramp"),
      TiffSource(<<2, 3, 1, 1>>, "c100"),
      MissingSource }
    \cup {ContainerSource(n, 2, 2, "ramp") : n \in 0..MaxFrames}

Request(h, v, m) == [handler |-> h, video |-> v, mask_in |-> m]

NoVideo == [kind |-> "none"]

UploadRequests == {Request("upload", v, NoMask) : v \in VideoFiles}

UploadMaskRequests == {Request("upload_mask", NoVideo, GivenMask(m)) : m \in MaskFiles}

AnalyzeRequests ==
    {Request("analyze", v, m) :
        v \in AnalyzeVideos, m \in {NoMask} \cup {GivenMask(x) : x \in MaskFiles}}

\* the requests of the runs in which two /analyze requests overlap
ConcurrentRequests ==
    {Request("analyze", TiffSource(<<2, 2>>, "ramp"), GivenMask(Arr(<<2, 2>>, d))) :
        d \in {<<1, 1, 2, 2>>, <<0, 3, 0, 0>>}}
    \cup {Request("analyze", TiffSource(<<2, 2>>, "ramp"), GivenMask(Arr(<<1, 2>>, <<1, 2>>)))}

\* the /analyze request that names, as mask_path, the file a request has posted
\* to /upload-mask (a mask with more than two axes, or the 2 x 2 mask
\* {0, 3; 3, 1}), with a 2 x 2 video
FollowUpRequests(q1) ==
    IF /\ q1.handler = "upload_mask"
       /\ q1.mask_in.arr \in MultiAxisMasks \cup {Arr(<<2, 2>>, <<0, 3, 3, 1>>)}
    THEN {Request("analyze", TiffSource(<<2, 2>>, "ramp"), q1.mask_in)}
    ELSE {}

\* what model.eval can return for an h x w image: any labeling of a small image,
\* and for a larger one no cell, one cell, or two cells
SegmentationOutputs(h, w) ==
    IF h * w <= 4
    THEN {Arr(<<h, w>>, d) : d \in [1..(h * w) -> Labels]}
    ELSE {Arr(<<h, w>>, [i \in 1..(h * w) |-> 0]),
          Arr(<<h, w>>, [i \in 1..(h * w) |-> 1]),
          Arr(<<h, w>>, [i \in 1..(h * w) |-> IF 2 * i <= h * w THEN 1 ELSE 2])}

-----------------------------------------------------------------------------
(* The server: request state and the files under masks/ and results/ *)

NoFile == [exists |-> FALSE]

FileOf(r, content) == [exists |-> TRUE, by |-> r, content |-> content]

\* the values int(time.time()) takes while the requests of a run are served
Seconds == {0, 1}

\* masks/latest_mask.tiff, results/intensity_data.csv, the file /import-csv
\* saves, the file an export writes, and plots/plot_<second>.png
NoFiles ==
    [latest_mask |-> NoFile, intensity_data |-> NoFile,
     imported |-> NoFile, exported |-> NoFile,
     plots |-> [t \in Seconds |-> NoFile]]

NoResponse == [status |-> 0]

\* temp_plot and plot_data before the plot step
NoName == [second |-> -1]

NoImage == [of |-> "none"]

NoCanon == [mask |-> NoArray, unique_cells |-> <<>>]

Idle == Request("none", NoVideo, NoMask)

\* a request thread as it enters its handler
Locals(q) ==
    [p |-> IF q.handler = "none" THEN "idle" ELSE "start", q |-> q]

Init ==
    /\ \E q1 \in UploadRequests \cup UploadMaskRequests \cup AnalyzeRequests
                 \cup ConcurrentRequests :
       \E q2 \in {Idle} \cup (IF q1 \in ConcurrentRequests
                              THEN ConcurrentRequests ELSE {})
                         \cup FollowUpRequests(q1) :
          LET q == [r \in Reqs |-> IF r = 1 THEN q1 ELSE q2]
          IN  /\ pc = [r \in Reqs |-> Locals(q[r]).p]
              /\ handler = [r \in Reqs |-> q[r].handler]
              /\ video = [r \in Reqs |-> q[r].video]
              /\ mask_in = [r \in Reqs |-> q[r].mask_in]
    /\ frames = [r \in Reqs |-> NoArray]
    /\ masks = [r \in Reqs |-> NoArray]
    /\ cells = [r \in Reqs |-> <<>>]
    /\ canon = [r \in Reqs |-> NoCanon]
    /\ df = [r \in Reqs |-> <<>>]
    /\ baselines = [r \in Reqs |-> <<>>]
    /\ colors = [r \in Reqs |-> <<>>]
    /\ mask_rgb = [r \in Reqs |-> NoArray]
    /\ labels = [r \in Reqs |-> <<>>]
    /\ temp_plot = [r \in Reqs |-> NoName]
    /\ plot_data = [r \in Reqs |-> NoImage]
    /\ csv_in = [r \in Reqs |-> <<>>]
    /\ selected = [r \in Reqs |-> <<>>]
    /\ response = [r \in Reqs |-> NoResponse]
    /\ files = NoFiles
    /\ wrote = [r \in Reqs |-> {}]

Finish(r, resp) ==
    /\ response' = [response EXCEPT ![r] = resp]
    /\ pc' = [pc EXCEPT ![r] = "done"]

Failure(code, msg) == [status |-> code, error |-> msg]

(* /upload *)
upload_file(r) ==
    /\ pc[r] = "start" /\ handler[r] = "upload"
    /\ frames' = [frames EXCEPT ![r] = process_video(video[r])]
    /\ Finish(r, [status |-> 200,
                  message |-> "File uploaded successfully",
                  frames |-> frames'[r].shape[1]])
    /\ UNCHANGED <<inputs, plotting, masks, cells, canon, df, baselines, files, wrote, preview>>

(* /upload-mask with a mask that has a cell: process_mask returns *)
upload_mask(r) ==
    /\ pc[r] = "start" /\ handler[r] = "upload_mask"
    /\ LET mask == ProcessMaskReduce(mask_in[r].arr)
           res == ProcessMaskRelabel(mask)
       IN  /\ res.unique_cells # <<>>
           /\ masks' = [masks EXCEPT ![r] = mask]
           /\ canon' = [canon EXCEPT ![r] = res]
           /\ cells' = [cells EXCEPT ![r] = res.unique_cells]
           /\ colors' = [colors EXCEPT ![r] =
                             ProcessMaskColors(Len(res.unique_cells))]
           /\ mask_rgb' = [mask_rgb EXCEPT ![r] =
                               ColorCells(ZerosRGB(res.mask), res.mask,
                                          res.unique_cells, colors'[r])]
           /\ labels' = [labels EXCEPT ![r] =
                             ProcessMaskLabels(res.mask, res.unique_cells)]
           /\ Finish(r, [status |-> 200,
                         message |-> "Mask uploaded successfully",
                         cell_ids |-> res.cell_ids])
    /\ UNCHANGED <<inputs, plotting, frames, df, baselines, files, wrote>>

(* /upload-mask with a mask without cells: n_colors = 0, and cv2.cvtColor is   *)
(* called on an image of zero pixels.  OpenCV 4 asserts !_src.empty() there    *)
(* and process_mask re-raises it as "Error processing mask: ..."               *)
upload_mask_empty_raises(r) ==
    /\ pc[r] = "start" /\ handler[r] = "upload_mask"
    /\ LET mask == ProcessMaskReduce(mask_in[r].arr)
           res == ProcessMaskRelabel(mask)
       IN  /\ res.unique_cells = <<>>
           /\ masks' = [masks EXCEPT ![r] = mask]
           /\ canon' = [canon EXCEPT ![r] = res]
           /\ cells' = [cells EXCEPT ![r] = res.unique_cells]
           /\ mask_rgb' = [mask_rgb EXCEPT ![r] = ZerosRGB(res.mask)]
           /\ UNCHANGED <<colors, labels>>
           /\ Finish(r, Failure(400, "Error processing mask: OpenCV assertion failed"))
    /\ UNCHANGED <<inputs, plotting, frames, df, baselines, files, wrote>>

(* ... and a build whose cvtColor accepts the empty image returns no colours, *)
(* the loops run zero times and process_mask returns an empty cell list       *)
upload_mask_empty_returns(r) ==
    /\ pc[r] = "start" /\ handler[r] = "upload_mask"
    /\ LET mask == ProcessMaskReduce(mask_in[r].arr)
           res == ProcessMaskRelabel(mask)
       IN  /\ res.unique_cells = <<>>
           /\ masks' = [masks EXCEPT ![r] = mask]
           /\ canon' = [canon EXCEPT ![r] = res]
           /\ cells' = [cells EXCEPT ![r] = res.unique_cells]
           /\ colors' = [colors EXCEPT ![r] = <<>>]
           /\ mask_rgb' = [mask_rgb EXCEPT ![r] = ZerosRGB(res.mask)]
           /\ labels' = [labels EXCEPT ![r] = <<>>]
           /\ Finish(r, [status |-> 200,
                         message |-> "Mask uploaded successfully",
                         cell_ids |-> res.cell_ids])
    /\ UNCHANGED <<inputs, plotting, frames, df, baselines, files, wrote>>

(* /analyze *)

MaskCheckNoCellsOnly(frames_, masks_) ==
    IF ndim(frames_) < 3
    THEN Failure(500, "tuple index out of range")
    ELSE IF NonZero(np_unique(masks_)) = <<>>
    THEN Failure(500, "No cells detected in the image")
    ELSE NoResponse

\* "Verify mask dimensions" and "Get unique cell IDs": the error raised, if any
\* (frames.shape[1] of an array with fewer than three axes is an IndexError)
MaskCheck(frames_, masks_) ==
    IF ndim(frames_) < 3
    THEN Failure(500, "tuple index out of range")
    ELSE IF masks_.shape # <<frames_.shape[2], frames_.shape[3]>>
    THEN [status |-> 500,
          error |-> "Mask shape does not match frame dimensions",
          mask_shape |-> masks_.shape,
          frame_dims |-> <<frames_.shape[2], frames_.shape[3]>>]
    ELSE IF NonZero(np_unique(masks_)) = <<>>
    THEN Failure(500, "No cells detected in the image")
    ELSE NoResponse

\* from the mask, through the mask preview, to the point where the mask file is
\* about to be written
AfterMask(r, frames_, masks_) ==
    LET err == MaskCheck(frames_, masks_)
    IN  /\ frames' = [frames EXCEPT ![r] = frames_]
        /\ masks' = [masks EXCEPT ![r] = masks_]
        /\ IF err # NoResponse
           THEN /\ Finish(r, err)
                /\ UNCHANGED <<cells, preview>>
           ELSE /\ cells' = [cells EXCEPT ![r] = NonZero(np_unique(masks_))]
                /\ colors' = [colors EXCEPT ![r] = AnalyzeColors(Len(cells'[r]))]
                /\ mask_rgb' = [mask_rgb EXCEPT ![r] =
                                    ColorCells(ZerosRGB(masks_), masks_,
                                               cells'[r], colors'[r])]
                /\ labels' = [labels EXCEPT ![r] = AnalyzeLabels(masks_, cells'[r])]
                /\ pc' = [pc EXCEPT ![r] = "save_mask"]
                /\ UNCHANGED response

\* video_path does not exist
analyze_video_missing(r) ==
    /\ pc[r] = "start" /\ handler[r] = "analyze"
    /\ video[r].kind = "missing"
    /\ Finish(r, Failure(500, "Video file not found"))
    /\ UNCHANGED <<inputs, plotting, frames, masks, cells, canon, df, baselines, files, wrote, preview>>

\* process_video, then the uploaded mask read and reduced to 2-D
analyze_video_with_mask(r) ==
    /\ pc[r] = "start" /\ handler[r] = "analyze"
    /\ video[r].kind # "missing"
    /\ mask_in[r].given
    /\ AfterMask(r, process_video(video[r]), AnalyzeReduceMask(mask_in[r].arr))
    /\ UNCHANGED <<inputs, plotting, canon, df, baselines, files, wrote>>

\* process_video, then frames[0] of a tensor without frames is an IndexError
analyze_video_no_first_frame(r) ==
    /\ pc[r] = "start" /\ handler[r] = "analyze"
    /\ video[r].kind # "missing"
    /\ ~mask_in[r].given
    /\ process_video(video[r]).shape[1] = 0
    /\ frames' = [frames EXCEPT ![r] = process_video(video[r])]
    /\ Finish(r, Failure(500, "index 0 is out of bounds for axis 0 with size 0"))
    /\ UNCHANGED <<inputs, plotting, masks, cells, canon, df, baselines, files, wrote, preview>>

\* process_video, then Cellpose segments the first frame
analyze_video_segment(r) ==
    /\ pc[r] = "start" /\ handler[r] = "analyze"
    /\ video[r].kind # "missing"
    /\ ~mask_in[r].given
    /\ LET frames_ == process_video(video[r])
       IN  /\ frames_.shape[1] > 0
           /\ \E out \in SegmentationOutputs(frames_.shape[2], frames_.shape[3]) :
                 AfterMask(r, frames_, AnalyzeReduceMask(out))
    /\ UNCHANGED <<inputs, plotting, canon, df, baselines, files, wrote>>

\* ... or Cellpose raises
analyze_video_segment_fails(r) ==
    /\ pc[r] = "start" /\ handler[r] = "analyze"
    /\ video[r].kind # "missing"
    /\ ~mask_in[r].given
    /\ process_video(video[r]).shape[1] > 0
    /\ frames' = [frames EXCEPT ![r] = process_video(video[r])]
    /\ Finish(r, Failure(500, "Cellpose segmentation failed"))
    /\ UNCHANGED <<inputs, plotting, masks, cells, canon, df, baselines, files, wrote, preview>>

\* tifffile.imwrite(masks/latest_mask.tiff, masks)
analyze_video_save_mask(r) ==
    /\ pc[r] = "save_mask"
    /\ files' = [files EXCEPT !.latest_mask = FileOf(r, masks[r])]
    /\ wrote' = [wrote EXCEPT ![r] = @ \cup {"latest_mask.tiff"}]
    /\ pc' = [pc EXCEPT ![r] = "analyze"]
    /\ UNCHANGED <<inputs, plotting, frames, masks, cells, canon, df, baselines, response, preview>>

\* analyze_calcium_intensity, then intensity_df.to_csv(results/intensity_data.csv)
analyze_video_intensity(r) ==
    /\ pc[r] = "analyze"
    /\ LET res == analyze_calcium_intensity(frames[r], masks[r])
       IN  /\ canon' = [canon EXCEPT ![r] =
                           [mask |-> res.mask, unique_cells |-> res.unique_cells]]
           /\ IF res.ok
              THEN /\ df' = [df EXCEPT ![r] = res.df]
                   /\ baselines' = [baselines EXCEPT ![r] = res.baselines]
                   /\ files' = [files EXCEPT !.intensity_data = FileOf(r, res.df)]
                   /\ wrote' = [wrote EXCEPT ![r] = @ \cup {"intensity_data.csv"}]
                   /\ pc' = [pc EXCEPT ![r] = "respond"]
                   /\ UNCHANGED response
              ELSE /\ Finish(r, Failure(500, "Calcium intensity analysis failed"))
                   /\ UNCHANGED <<df, baselines, files, wrote>>
    /\ UNCHANGED <<inputs, plotting, frames, masks, cells, preview>>

\* ... or the analysis step raises (analyze_calcium_intensity, os.makedirs or
\* to_csv before the CSV exists): the except clause turns it into "Calcium
\* intensity analysis failed: ..." and the outer handler answers 500.  The mask
\* file written before the step stays as it is
analyze_video_intensity_fails(r) ==
    /\ pc[r] = "analyze"
    /\ Finish(r, Failure(500, "Calcium intensity analysis failed"))
    /\ UNCHANGED <<inputs, plotting, frames, masks, cells, canon, df, baselines, files, wrote, preview>>

\* the plot (or None when plotting raised) and the JSON response
analyze_video_respond(r) ==
    /\ pc[r] = "respond"
    /\ \E plot_ok \in BOOLEAN :
          Finish(r, [status |-> 200,
                     message |-> "Analysis complete",
                     results_path |-> "results/intensity_data.csv",
                     mask_path |-> "masks/latest_mask.tiff",
                     plot |-> plot_ok,
                     n_cells |-> Len(cells[r])])
    /\ UNCHANGED <<inputs, plotting, frames, masks, cells, canon, df, baselines, files, wrote, preview>>

Next ==
    \E r \in Reqs :
        \/ upload_file(r)
        \/ upload_mask(r)
        \/ upload_mask_empty_raises(r)
        \/ upload_mask_empty_returns(r)
        \/ analyze_video_missing(r)
        \/ analyze_video_with_mask(r)
        \/ analyze_video_no_first_frame(r)
        \/ analyze_video_segment(r)
        \/ analyze_video_segment_fails(r)
        \/ analyze_video_save_mask(r)
        \/ analyze_video_intensity(r)
        \/ analyze_video_intensity_fails(r)
        \/ analyze_video_respond(r)

Spec == Init /\ [][Next]_vars

-----------------------------------------------------------------------------
(* Tables of intensity records: dF/F (calculate_df) in /import-csv,          *)
(* /export-csv and /export-all-csv, and the baseline step of                 *)
(* analyze_calcium_intensity applied to a table of records                   *)

RatSub(x, y) == Rat(x.num * y.den - y.num * x.den, x.den * y.den)

\* calculate_df's default baseline_frames
BaselineFrames == 10

\* q[:n]
Take(q, n) == SubSeq(q, 1, IF n < Len(q) THEN n ELSE Len(q))

\* calculate_df(intensities, baseline_frames)
calculate_df(intensities, baseline_frames) ==
    LET first == Take(intensities, baseline_frames)
        total == RatSum(first)
        baseline == Rat(total.num, total.den * Len(first))
    IN  [k \in 1..Len(intensities) |->
            RatDiv(RatSub(intensities[k], baseline), baseline)]

\* the columns of a table
Columns(t) == IF t = <<>> THEN {} ELSE DOMAIN t[1]

\* df['cell_id'].unique(): the ids in order of first appearance
RECURSIVE Unique(_)
Unique(q) ==
    IF q = <<>> THEN <<>>
    ELSE <<Head(q)>> \o Unique(SelectSeq(Tail(q), LAMBDA x : x # Head(q)))

CellIds(t) == Unique([k \in 1..Len(t) |-> t[k].cell_id])

\* cell_data = df[df['cell_id'] == cell].copy(), with the columns dF and
\* time_seconds set from its rows in their order in the table
CellData(t, cell) ==
    LET cell_data == SelectSeq(t, LAMBDA rec : rec.cell_id = cell)
        dF == calculate_df([k \in 1..Len(cell_data) |-> cell_data[k].intensity],
                           BaselineFrames)
    IN  [k \in 1..Len(cell_data) |->
            [dF |-> dF[k], time_seconds |-> Rat(cell_data[k].frame, 30)]
                @@ cell_data[k]]

\* pd.concat(df_list) over the cells of `cells`
RECURSIVE ConcatCells(_, _)
ConcatCells(t, cells_) ==
    IF cells_ = <<>> THEN <<>>
    ELSE CellData(t, Head(cells_)) \o ConcatCells(t, Tail(cells_))

\* df[df['cell_id'].isin(selected_cells)]
IsIn(t, selected_cells) ==
    SelectSeq(t, LAMBDA rec : \E k \in DOMAIN selected_cells :
                                 selected_cells[k] = rec.cell_id)

RequiredColumns == {"cell_id", "frame", "intensity"}

\* the intensity of a cell at the frame of offset f of a series of L frames
SeriesValue(pattern, f, L) ==
    CASE pattern = "asc"  -> f
      [] pattern = "desc" -> L + 1 - f
      [] OTHER            -> ((5 * f) % 7) + 1

\* the rows of one cell: L consecutive frames from `start`, written in
\* ascending or in descending frame order
SeriesRows(cell, start, L, pattern, order) ==
    [j \in 1..L |->
        LET f == IF order = "sorted" THEN j ELSE L + 1 - j
        IN  [frame |-> start + f - 1,
             cell_id |-> cell,
             intensity |-> Rat(SeriesValue(pattern, f, L), 1)]]

\* the rows of analyze_calcium_intensity for two cells: frame-major
TwoCellRows(L, pattern) ==
    [i \in 1..(2 * L) |->
        [frame |-> (i - 1) \div 2,
         cell_id |-> ((i - 1) % 2) + 1,
         intensity |-> Rat(SeriesValue(pattern, ((i - 1) \div 2) + 1, L)
                             + ((i - 1) % 2), 1)]]

\* tables with the three required columns only
PlainTables ==
    {SeriesRows(5, start, L, pattern, order) :
        start \in {0, 3}, L \in 1..MaxRows,
        pattern \in {"asc", "desc", "zig"}, order \in {"sorted", "reversed"}}
    \cup {TwoCellRows(L, pattern) : L \in {2, MaxRows}, pattern \in {"asc", "zig"}}

\* a table that already has a dF column, and one without an intensity column
OtherTables ==
    { [j \in 1..2 |-> [frame |-> j - 1, cell_id |-> 1,
                        intensity |-> Rat(j, 1), dF |-> Rat(0, 1)]],
      [j \in 1..2 |-> [frame |-> j - 1, cell_id |-> 1]] }

Selections == {<<>>, <<5>>, <<1>>, <<2, 1>>}

TableRequest(h, t, sel) == [handler |-> h, csv_in |-> t, selected |-> sel]

TableRequests ==
    {TableRequest("baseline", t, <<>>) : t \in PlainTables}
    \cup {TableRequest(h, t, <<>>) :
            h \in {"import_csv", "export_all_csv"}, t \in PlainTables \cup OtherTables}
    \cup {TableRequest("export_csv", t, sel) :
            t \in PlainTables \cup OtherTables, sel \in Selections}

InitTable ==
    /\ \E q \in TableRequests :
          /\ handler = [r \in Reqs |-> IF r = 1 THEN q.handler ELSE "none"]
          /\ csv_in = [r \in Reqs |-> IF r = 1 THEN q.csv_in ELSE <<>>]
          /\ selected = [r \in Reqs |-> IF r = 1 THEN q.selected ELSE <<>>]
    /\ pc = [r \in Reqs |-> IF r = 1 THEN "start" ELSE "idle"]
    /\ video = [r \in Reqs |-> NoVideo]
    /\ mask_in = [r \in Reqs |-> NoMask]
    /\ frames = [r \in Reqs |-> NoArray]
    /\ masks = [r \in Reqs |-> NoArray]
    /\ cells = [r \in Reqs |-> <<>>]
    /\ canon = [r \in Reqs |-> NoCanon]
    /\ df = [r \in Reqs |-> <<>>]
    /\ baselines = [r \in Reqs |-> <<>>]
    /\ colors = [r \in Reqs |-> <<>>]
    /\ mask_rgb = [r \in Reqs |-> NoArray]
    /\ labels = [r \in Reqs |-> <<>>]
    /\ temp_plot = [r \in Reqs |-> NoName]
    /\ plot_data = [r \in Reqs |-> NoImage]
    /\ response = [r \in Reqs |-> NoResponse]
    /\ files = NoFiles
    /\ wrote = [r \in Reqs |-> {}]

\* analyze_calcium_intensity from "Calculate baseline" on, for the table `df`
\* built from a list of records
baseline_normalization(r) ==
    /\ pc[r] = "start" /\ handler[r] = "baseline"
    /\ df' = [df EXCEPT ![r] = WithNormalized(csv_in[r])]
    /\ baselines' = [baselines EXCEPT ![r] = Baselines(csv_in[r])]
    /\ pc' = [pc EXCEPT ![r] = "done"]
    /\ UNCHANGED <<inputs, plotting, frames, masks, cells, canon, preview, response, files, wrote>>

(* /import-csv: the file is saved, validated, and rewritten with dF *)
import_csv(r) ==
    /\ pc[r] = "start" /\ handler[r] = "import_csv"
    /\ wrote' = [wrote EXCEPT ![r] = @ \cup {"imported.csv"}]
    /\ IF ~(RequiredColumns \subseteq Columns(csv_in[r]))
       THEN /\ files' = [files EXCEPT !.imported = NoFile]
            /\ Finish(r, Failure(400, "Missing required columns"))
            /\ UNCHANGED df
       ELSE LET out == IF "dF" \in Columns(csv_in[r]) THEN csv_in[r]
                       ELSE ConcatCells(csv_in[r], CellIds(csv_in[r]))
            IN  /\ df' = [df EXCEPT ![r] = out]
                /\ files' = [files EXCEPT !.imported = FileOf(r, out)]
                /\ Finish(r, [status |-> 200, success |-> TRUE,
                              path |-> "results/imported.csv",
                              cells |-> CellIds(out)])
    /\ UNCHANGED <<inputs, plotting, frames, masks, cells, canon, preview, baselines>>

(* /export-csv: the rows of the selected cells of the file at results_path, *)
(* with dF computed anew, written to selected_cells_<timestamp>.csv         *)
export_csv(r) ==
    /\ pc[r] = "start" /\ handler[r] = "export_csv"
    /\ IF selected[r] = <<>>
       THEN /\ Finish(r, Failure(400, "No cells selected for export"))
            /\ UNCHANGED <<df, files, wrote>>
       ELSE IF ~(RequiredColumns \subseteq Columns(csv_in[r]))
       THEN /\ Finish(r, Failure(400, "'intensity'"))
            /\ UNCHANGED <<df, files, wrote>>
       ELSE LET filtered == IsIn(csv_in[r], selected[r])
                final_df == ConcatCells(filtered, CellIds(filtered))
            IN  /\ df' = [df EXCEPT ![r] = final_df]
                /\ files' = [files EXCEPT !.exported = FileOf(r, final_df)]
                /\ wrote' = [wrote EXCEPT ![r] = @ \cup {"selected_cells.csv"}]
                /\ Finish(r, [status |-> 200, success |-> TRUE,
                              path |-> "results/selected_cells.csv"])
    /\ UNCHANGED <<inputs, plotting, frames, masks, cells, canon, preview, baselines>>

(* /export-all-csv: every cell, dF computed unless the file has the column *)
export_all_csv(r) ==
    /\ pc[r] = "start" /\ handler[r] = "export_all_csv"
    /\ IF "dF" \notin Columns(csv_in[r])
          /\ ~(RequiredColumns \subseteq Columns(csv_in[r]))
       THEN /\ Finish(r, Failure(400, "'intensity'"))
            /\ UNCHANGED <<df, files, wrote>>
       ELSE LET out == IF "dF" \in Columns(csv_in[r]) THEN csv_in[r]
                       ELSE ConcatCells(csv_in[r], CellIds(csv_in[r]))
            IN  /\ df' = [df EXCEPT ![r] = out]
                /\ files' = [files EXCEPT !.exported = FileOf(r, out)]
                /\ wrote' = [wrote EXCEPT ![r] = @ \cup {"all_cells.csv"}]
                /\ Finish(r, [status |-> 200, success |-> TRUE,
                              path |-> "results/all_cells.csv"])
    /\ UNCHANGED <<inputs, plotting, frames, masks, cells, canon, preview, baselines>>

NextTable ==
    \E r \in Reqs :
        \/ baseline_normalization(r)
        \/ import_csv(r)
        \/ export_csv(r)
        \/ export_all_csv(r)

SpecTable == InitTable /\ [][NextTable]_vars

-----------------------------------------------------------------------------
(* The temporary plot file: /plot (generate_plot), /generate-plot and the    *)
(* plot step of /analyze (both through create_plot_from_data) name it        *)
(* plots/plot_<int(time.time())>.png, let ggsave write it, read it back and  *)
(* remove it.  Two request threads run these steps interleaved.              *)

PlotHandlers == {"plot", "generate_plot", "analyze"}

\* the cells a plot request selects
PlotSelections == {<<1>>, <<2, 1>>}

PlotRequests == {[handler |-> h, selected |-> sel] :
                    h \in PlotHandlers, sel \in PlotSelections}

\* the PNG that ggsave renders for request r: its content is determined by the
\* cells the request plots
Image(r) == [of |-> "cells", cells |-> selected[r]]

\* what the handler answers when a step of the plot raises: /plot and
\* /generate-plot answer 400; /analyze logs the error and answers with plot = None
PlotFailure(r) ==
    IF handler[r] = "analyze"
    THEN [status |-> 200, plot |-> NoImage]
    ELSE Failure(400, "No such file or directory")

InitPlot ==
    /\ \E q1, q2 \in PlotRequests :
          LET q == [r \in Reqs |-> IF r = 1 THEN q1 ELSE q2]
          IN  /\ handler = [r \in Reqs |-> q[r].handler]
              /\ selected = [r \in Reqs |-> q[r].selected]
    /\ pc = [r \in Reqs |-> "start"]
    /\ csv_in = [r \in Reqs |-> <<>>]
    /\ video = [r \in Reqs |-> NoVideo]
    /\ mask_in = [r \in Reqs |-> NoMask]
    /\ frames = [r \in Reqs |-> NoArray]
    /\ masks = [r \in Reqs |-> NoArray]
    /\ cells = [r \in Reqs |-> <<>>]
    /\ canon = [r \in Reqs |-> NoCanon]
    /\ df = [r \in Reqs |-> <<>>]
    /\ baselines = [r \in Reqs |-> <<>>]
    /\ colors = [r \in Reqs |-> <<>>]
    /\ mask_rgb = [r \in Reqs |-> NoArray]
    /\ labels = [r \in Reqs |-> <<>>]
    /\ temp_plot = [r \in Reqs |-> NoName]
    /\ plot_data = [r \in Reqs |-> NoImage]
    /\ response = [r \in Reqs |-> NoResponse]
    /\ files = NoFiles
    /\ wrote = [r \in Reqs |-> {}]

\* temp_plot = os.path.join(PLOT_FOLDER, f'plot_{int(time.time())}.png'): the
\* clock does not run backwards between two requests
plot_temp_name(r) ==
    /\ pc[r] = "start" /\ handler[r] \in PlotHandlers
    /\ \E t \in Seconds :
          /\ \A o \in Reqs : temp_plot[o] # NoName => temp_plot[o].second <= t
          /\ temp_plot' = [temp_plot EXCEPT ![r] = [second |-> t]]
    /\ pc' = [pc EXCEPT ![r] = "ggsave"]
    /\ UNCHANGED <<inputs, plot_data, frames, masks, cells, canon, preview, df, baselines, response, files, wrote>>

\* ro.r(r_code)(r_df): ggsave writes the rendered plot to temp_plot
plot_ggsave(r) ==
    /\ pc[r] = "ggsave"
    /\ files' = [files EXCEPT !.plots[temp_plot[r].second] = FileOf(r, Image(r))]
    /\ pc' = [pc EXCEPT ![r] = "read"]
    /\ UNCHANGED <<inputs, plotting, frames, masks, cells, canon, preview, df, baselines, response, wrote>>

\* with open(temp_plot, 'rb') as f: plot_data = base64.b64encode(f.read())
plot_read(r) ==
    /\ pc[r] = "read"
    /\ LET f == files.plots[temp_plot[r].second]
       IN  IF f.exists
           THEN /\ plot_data' = [plot_data EXCEPT ![r] = f.content]
                /\ pc' = [pc EXCEPT ![r] = "remove"]
                /\ UNCHANGED response
           ELSE /\ Finish(r, PlotFailure(r))
                /\ UNCHANGED plot_data
    /\ UNCHANGED <<inputs, temp_plot, frames, masks, cells, canon, preview, df, baselines, files, wrote>>

\* os.remove(temp_plot), then the response with the plot
plot_remove(r) ==
    /\ pc[r] = "remove"
    /\ LET t == temp_plot[r].second
       IN  IF files.plots[t].exists
           THEN /\ files' = [files EXCEPT !.plots[t] = NoFile]
                /\ Finish(r, [status |-> 200, plot |-> plot_data[r]])
           ELSE /\ Finish(r, PlotFailure(r))
                /\ UNCHANGED files
    /\ UNCHANGED <<inputs, plotting, frames, masks, cells, canon, preview, df, baselines, wrote>>

NextPlot ==
    \E r \in Reqs :
        \/ plot_temp_name(r)
        \/ plot_ggsave(r)
        \/ plot_read(r)
        \/ plot_remove(r)

SpecPlot == InitPlot /\ [][NextPlot]_vars

-----------------------------------------------------------------------------
(* Properties *)

\* the positive values of a label image
Positive(m) == {v \in Range(m.data) : v > 0}

\* the number of values of S that are at most v: v is the Rank-th smallest of S
Rank(S, v) == Cardinality({x \in S : x <= v})

\* request r has canonicalized its 2-D mask masks[r] into canon[r].mask
Canonicalized(r) == canon[r].mask # NoArray

\* a label image whose positive values are exactly 1..N
IsCanonical(m) == Positive(m) = 1..Cardinality(Positive(m))

\* C1: after canonicalization (process_mask, and the relabeling inside
\* analyze_calcium_intensity) of a raw label image with at least one positive
\* value, the positive values of the label image are exactly 1..N, N the number
\* of distinct positive raw values, and every background pixel is still 0
C1_CanonicalValues ==
    \A r \in Reqs :
        (Canonicalized(r) /\ Positive(masks[r]) # {}) =>
            /\ canon[r].mask.shape = masks[r].shape
            /\ DOMAIN canon[r].mask.data = DOMAIN masks[r].data
            /\ Positive(canon[r].mask) = 1..Cardinality(Positive(masks[r]))
            /\ \A i \in DOMAIN masks[r].data :
                  /\ canon[r].mask.data[i] >= 0
                  /\ masks[r].data[i] = 0 => canon[r].mask.data[i] = 0

\* C1 witness: analyze_calcium_intensity has relabeled a mask with the sparse
\* labels {1, 3}
C1_Witness ==
    \E r \in Reqs :
        /\ Canonicalized(r)
        /\ handler[r] = "analyze"
        /\ Positive(masks[r]) = {1, 3}
        /\ Positive(canon[r].mask) = {1, 2}

\* C2: canonicalization preserves the partition: two pixels carry the same raw
\* value iff they carry the same canonical value, and a pixel is background
\* before iff it is background after
C2_PartitionPreserved ==
    \A r \in Reqs :
        Canonicalized(r) =>
            \A i, j \in DOMAIN masks[r].data :
                /\ (masks[r].data[i] = masks[r].data[j])
                      <=> (canon[r].mask.data[i] = canon[r].mask.data[j])
                /\ (masks[r].data[i] = 0) <=> (canon[r].mask.data[i] = 0)

\* C2 witness: a relabeled mask with background and two cells, one of them of
\* two pixels, whose raw labels were not 1..N
C2_Witness ==
    \E r \in Reqs :
        /\ Canonicalized(r)
        /\ handler[r] = "upload_mask"
        /\ masks[r].data = <<3, 0, 2, 3>>
        /\ canon[r].mask.data = <<2, 0, 1, 2>>

\* C3: the original-to-sequential ID map is an order-preserving bijection from
\* the distinct positive raw values onto 1..N: the k-th smallest raw value gets
\* ID k, in the map process_mask builds and in the pixels both paths rewrite
C3_OrderPreservingMap ==
    \A r \in Reqs :
        Canonicalized(r) =>
            LET raw == Positive(masks[r])
            IN  /\ \A i \in DOMAIN masks[r].data :
                      masks[r].data[i] > 0 =>
                          canon[r].mask.data[i] = Rank(raw, masks[r].data[i])
                /\ handler[r] = "upload_mask" =>
                      /\ DOMAIN canon[r].idmap = raw
                      /\ \A o \in raw : canon[r].idmap[o] = Rank(raw, o)
                      /\ {canon[r].idmap[o] : o \in raw} = 1..Cardinality(raw)
                      /\ \A o1, o2 \in raw :
                            o1 < o2 => canon[r].idmap[o1] < canon[r].idmap[o2]

\* C3 witness: process_mask has mapped the raw values 5 and 7 to 1 and 2
C3_Witness ==
    \E r \in Reqs :
        /\ Canonicalized(r)
        /\ handler[r] = "upload_mask"
        /\ DOMAIN canon[r].idmap = {5, 7}
        /\ canon[r].idmap[5] = 1
        /\ canon[r].idmap[7] = 2

\* C4: canonicalization is idempotent: a label image whose positive values are
\* already 1..N comes back unchanged, with the identity ID map, and
\* canonicalizing the canonical image once more changes nothing
C4_Idempotent ==
    \A r \in Reqs :
        Canonicalized(r) =>
            /\ IsCanonical(masks[r]) =>
                  /\ canon[r].mask = masks[r]
                  /\ handler[r] = "upload_mask" =>
                        \A o \in DOMAIN canon[r].idmap : canon[r].idmap[o] = o
            /\ ProcessMaskRelabel(canon[r].mask).mask = canon[r].mask
            /\ AnalyzeRelabel(canon[r].mask).mask = canon[r].mask
            /\ handler[r] = "upload_mask" =>
                  \A o \in Positive(canon[r].mask) :
                      ProcessMaskRelabel(canon[r].mask).idmap[o] = o

\* C4 witness: process_mask has relabeled an image whose labels were already
\* 1, 2, 3
C4_Witness ==
    \E r \in Reqs :
        /\ Canonicalized(r)
        /\ handler[r] = "upload_mask"
        /\ Positive(masks[r]) = {1, 2, 3}
        /\ canon[r].mask = masks[r]

\* a label image with pixels, all of them background
AllZero(m) == m.data # <<>> /\ \A i \in DOMAIN m.data : m.data[i] = 0

\* the mask of request r has the height and width of its frames
DimsMatch(r) ==
    /\ ndim(frames[r]) >= 3
    /\ masks[r].shape = <<frames[r].shape[2], frames[r].shape[3]>>

\* C5: canonicalizing a label image without a positive value fails with
\* NoCellsDetected and returns no result, in mask ingestion (/upload-mask,
\* process_mask) as in analysis (/analyze)
C5_NoCellsDetected ==
    \A r \in Reqs :
        ( /\ pc[r] = "done"
          /\ handler[r] \in {"upload_mask", "analyze"}
          /\ AllZero(masks[r])
          /\ handler[r] = "analyze" => DimsMatch(r) ) =>
            /\ response[r].status # 200
            /\ response[r].error = "No cells detected in the image"

\* C6: when the height and width of the label image differ from those of the
\* frames, /analyze fails with the dimension error that names both shapes,
\* before any intensity record is computed and before the mask file or the
\* results file is written
C6_DimensionMismatch ==
    \A r \in Reqs :
        ( /\ handler[r] = "analyze"
          /\ masks[r] # NoArray
          /\ ndim(frames[r]) >= 3
          /\ ~DimsMatch(r) ) =>
            /\ pc[r] = "done"
            /\ response[r].status = 500
            /\ response[r].error = "Mask shape does not match frame dimensions"
            /\ response[r].mask_shape = masks[r].shape
            /\ response[r].frame_dims = <<frames[r].shape[2], frames[r].shape[3]>>
            /\ df[r] = <<>>
            /\ canon[r] = NoCanon
            /\ wrote[r] = {}
            /\ files.latest_mask.exists => files.latest_mask.by # r
            /\ files.intensity_data.exists => files.intensity_data.by # r

\* C6 witness: a 1 x 2 mask against 2 x 2 frames has been refused, while the
\* other request has written both files
C6_Witness ==
    \E r \in Reqs :
        /\ pc[r] = "done"
        /\ response[r].status = 500
        /\ response[r].error = "Mask shape does not match frame dimensions"
        /\ response[r].mask_shape = <<1, 2>>
        /\ response[r].frame_dims = <<2, 2>>
        /\ files.latest_mask.exists
        /\ files.intensity_data.exists

\* the shape process_video is to return for a source array of shape sh
NormalizedShape(sh) ==
    IF Len(sh) = 2 THEN <<1, sh[1], sh[2], 3>>
    ELSE IF Len(sh) = 3
         THEN IF sh[3] \in {1, 3, 4} THEN <<1, sh[1], sh[2], 3>>
              ELSE <<sh[1], sh[2], sh[3], 3>>
         ELSE <<sh[1], sh[2], sh[3], 3>>

\* the array shapes process_video supports
SupportedShape(sh) ==
    Len(sh) \in {2, 3} \/ (Len(sh) = 4 /\ sh[4] \in {1, 3, 4})

\* C7: for every supported input shape (2-D, 3-D, 4-D with 1, 3 or 4 channels)
\* process_video returns a tensor of exactly four axes whose last axis has size
\* exactly 3; its leading axes are (N, H, W) and it holds N*H*W*3 elements
C7_FrameTensorShape ==
    \A r \in Reqs :
        ( /\ frames[r] # NoArray
          /\ SupportedShape(LoadFrames(video[r]).shape) ) =>
            /\ ndim(frames[r]) = 4
            /\ frames[r].shape[4] = 3
            /\ frames[r].shape = NormalizedShape(LoadFrames(video[r]).shape)
            /\ Len(frames[r].data) = Prod(frames[r].shape)

\* C7 witness: a 3-D stack of 3 frames of 4 x 2 pixels has been normalised to
\* the tensor (3, 4, 2, 3)
C7_Witness ==
    \E r \in Reqs :
        /\ video[r].kind = "tiff"
        /\ video[r].arr.shape = <<3, 4, 2>>
        /\ frames[r].shape = <<3, 4, 2, 3>>

\* C9: channel expansion: a 1-channel input gives three channels all equal to
\* the input channel at every pixel, a 4-channel input gives its first three
\* channels in order, a 3-channel input comes back with every value unchanged
C9_ChannelExpansion ==
    \A r \in Reqs :
        ( /\ frames[r] # NoArray
          /\ SupportedShape(LoadFrames(video[r]).shape) ) =>
            LET x == EnsureNHWC(LoadFrames(video[r]))
                c == LastDim(x)
                npix == x.shape[1] * x.shape[2] * x.shape[3]
            IN  /\ Len(x.data) = npix * c
                /\ Len(frames[r].data) = npix * 3
                /\ \A px \in 0..(npix - 1) : \A ch \in 0..2 :
                      frames[r].data[3 * px + ch + 1]
                        = x.data[c * px + (IF c = 1 THEN 0 ELSE ch) + 1]
                /\ c = 3 => frames[r] = x

\* C9 witness: a grayscale frame of 2 x 3 different pixel values has been
\* expanded to three channels
C9_Witness ==
    \E r \in Reqs :
        /\ video[r] = TiffSource(<<2, 3>>, "ramp")
        /\ frames[r].shape = <<1, 2, 3, 3>>
        /\ frames[r].data[4] = 2 /\ frames[r].data[5] = 2 /\ frames[r].data[6] = 2

\* C8: a grayscale stack of F frames of H x W pixels, all of the constant value
\* 100, analyzed with an H x W label image that has N >= 1 distinct raw labels,
\* yields F * N records, one per (frame, cell), each with intensity 100 and
\* normalized_intensity 1
C8_ConstantStack ==
    \A r \in Reqs :
        ( /\ pc[r] = "done"
          /\ handler[r] = "analyze"
          /\ video[r].kind = "tiff"
          /\ Len(video[r].arr.shape) = 3
          /\ \A i \in DOMAIN video[r].arr.data : video[r].arr.data[i] = 100
          /\ mask_in[r].given
          /\ mask_in[r].arr.shape = <<video[r].arr.shape[2], video[r].arr.shape[3]>>
          /\ Positive(mask_in[r].arr) # {} ) =>
            LET F == video[r].arr.shape[1]
                N == Cardinality(Positive(mask_in[r].arr))
            IN  /\ response[r].status = 200
                /\ Len(df[r]) = F * N
                /\ \A f \in 0..(F - 1) : \A k \in 1..N :
                      \E i \in DOMAIN df[r] :
                          /\ df[r][i].frame = f
                          /\ df[r][i].cell_id = k
                          /\ RatEq(df[r][i].intensity, Rat(100, 1))
                          /\ RatEq(df[r][i].normalized_intensity, Rat(1, 1))

\* C10: when the first read of a video container fails (zero frames are
\* read), process_video fails instead of returning a tensor, so the request
\* fails and no caller holds a frame tensor with zero frames
C10_UnreadableSource ==
    \A r \in Reqs :
        ( /\ pc[r] = "done"
          /\ video[r].kind = "video"
          /\ video[r].nframes = 0 ) =>
            /\ frames[r] = NoArray
            /\ response[r].status # 200

\* the green sample (channel index 1) of pixel p of frame f of an F x H x W x 3 tensor
Green(t, f, p) == t.data[3 * (f * t.shape[2] * t.shape[3] + (p - 1)) + 2]

\* the sum of the green samples of frame f over the pixels of the set S
RECURSIVE GreenSum(_, _, _)
GreenSum(t, f, S) ==
    IF S = {} THEN 0
    ELSE LET p == CHOOSE x \in S : TRUE
         IN  Green(t, f, p) + GreenSum(t, f, S \ {p})

\* the pixels that carry label k
PixelsOf(m, k) == {p \in DOMAIN m.data : m.data[p] = k}

\* C11: every record (f, k) of the intensity table holds the arithmetic mean,
\* sum / count, of the green channel of frame f over exactly the pixels whose
\* label is k; no other pixel contributes
C11_MeanOfGreenOverCell ==
    \A r \in Reqs : \A i \in DOMAIN df[r] :
        LET rec == df[r][i]
            S == PixelsOf(canon[r].mask, rec.cell_id)
        IN  /\ S # {}
            /\ IsFinite(rec.intensity)
            /\ rec.intensity.num * Cardinality(S)
                 = GreenSum(frames[r], rec.frame, S) * rec.intensity.den

\* C11 witness: on an RGB frame whose channels differ, a cell of two pixels with
\* green samples 2 and 5 has the recorded intensity 7/2
C11_Witness ==
    \E r \in Reqs : \E i \in DOMAIN df[r] :
        /\ video[r] = TiffSource(<<2, 2, 2, 3>>, "ramp")
        /\ df[r][i].frame = 0
        /\ PixelsOf(canon[r].mask, df[r][i].cell_id) = {1, 2}
        /\ df[r][i].intensity = Rat(7, 2)

\* the request has an intensity table
Analyzed(r) == handler[r] = "analyze" /\ "intensity_data.csv" \in wrote[r]

\* C12: for F frames and a mask of N distinct positive labels, consecutive or
\* sparse, the table holds exactly one record per (frame, cell_id) of
\* 0..F-1 x 1..N and no other, in ascending frame and, within a frame,
\* ascending cell_id
C12_OneRecordPerFrameAndCell ==
    \A r \in Reqs :
        Analyzed(r) =>
            LET F == frames[r].shape[1]
                N == Cardinality(Positive(masks[r]))
            IN  /\ Len(df[r]) = F * N
                /\ {<<df[r][i].frame, df[r][i].cell_id>> : i \in DOMAIN df[r]}
                     = (0..(F - 1)) \X (1..N)
                /\ \A i, j \in DOMAIN df[r] :
                      i < j => \/ df[r][i].frame < df[r][j].frame
                               \/ /\ df[r][i].frame = df[r][j].frame
                                  /\ df[r][i].cell_id < df[r][j].cell_id

\* C12 witness: three frames and the sparse labels 1 and 3 gave six records
C12_Witness ==
    \E r \in Reqs :
        /\ Analyzed(r)
        /\ frames[r].shape[1] = 3
        /\ Positive(masks[r]) = {1, 3}
        /\ Len(df[r]) = 6

\* the rows of a table that belong to cell k and frame 0
FrameZeroRows(t, k) == {j \in DOMAIN t : t[j].cell_id = k /\ t[j].frame = 0}

C15_ZeroBaselineFails ==
    \A r \in Reqs :
        /\ \A i \in DOMAIN df[r] : IsFinite(df[r][i].normalized_intensity)
        /\ (\E k \in DOMAIN baselines[r] : baselines[r][k].num = 0) =>
              /\ df[r] = <<>>
              /\ pc[r] = "done" => response[r].status # 200

\* the request has got past the point where its handler builds the palette
PaletteDue(r) ==
    \/ handler[r] = "upload_mask" /\ pc[r] = "done"
    \/ handler[r] = "analyze" /\ pc[r] \in {"save_mask", "analyze", "respond"}

\* C17: palette generation for n cells never fails and returns exactly n RGB
\* triples, the empty palette for n = 0, in the full-brightness variant of
\* analyze_video and in the darkened variant of process_mask
C17_PaletteLength ==
    \A r \in Reqs :
        PaletteDue(r) =>
            /\ handler[r] = "upload_mask" => response[r].status = 200
            /\ Len(colors[r]) = Len(cells[r])
            /\ \A k \in DOMAIN colors[r] : Len(colors[r][k]) = 3

\* C18: the RGB triples of a generated palette are pairwise distinct, for every
\* number of cells, wherever a palette is generated
C18_PaletteDistinct ==
    \A r \in Reqs :
        \A i, j \in DOMAIN colors[r] : i # j => colors[r][i] # colors[r][j]

\* the label image a request's preview is painted from
PreviewLabels(r) == IF handler[r] = "upload_mask" THEN canon[r].mask ELSE masks[r]

\* the sequential ID of a pixel of a label image: 0 for background, else the
\* rank of its label among the positive labels
SequentialId(m, px) ==
    IF m.data[px] = 0 THEN 0 ELSE Rank(Positive(m), m.data[px])

\* C19: in the base layer of the overlay, before any text is drawn, every pixel
\* of the cell with sequential ID i + 1 has the colour palette[i], every
\* background pixel is black, and the raster has the height and width of the
\* label image and three channels
C19_OverlayBaseLayer ==
    \A r \in Reqs :
        PaletteDue(r) =>
            LET m == PreviewLabels(r)
            IN  /\ mask_rgb[r].shape = m.shape \o <<3>>
                /\ Len(mask_rgb[r].data) = 3 * Len(m.data)
                /\ \A px \in DOMAIN m.data : \A c \in 1..3 :
                      mask_rgb[r].data[3 * (px - 1) + c]
                        = IF SequentialId(m, px) = 0 THEN 0
                          ELSE colors[r][SequentialId(m, px)][c]

\* C19 witness: in a preview of the raw labels 1 and 3, a pixel labelled 3 has
\* the second colour of the palette, (45, 229, 229), and a background pixel is
\* black
C19_Witness ==
    \E r \in Reqs : \E px, bg \in DOMAIN masks[r].data :
        /\ handler[r] = "analyze" /\ PaletteDue(r)
        /\ Positive(masks[r]) = {1, 3}
        /\ masks[r].data[px] = 3 /\ masks[r].data[bg] = 0
        /\ colors[r][2] = <<45, 229, 229>>
        /\ \A c \in 1..3 :
              /\ mask_rgb[r].data[3 * (px - 1) + c] = colors[r][2][c]
              /\ mask_rgb[r].data[3 * (bg - 1) + c] = 0

\* C20: the ID drawn as text on a cell is the cell's sequential ID: the IDs
\* drawn on the mask preview of an /analyze request are the cell_id values of
\* the intensity table of that request, and each region carries the cell_id
\* under which its intensities are recorded, whatever the raw labels are
C20_DrawnIdIsCellId ==
    \A r \in Reqs :
        Analyzed(r) =>
            /\ {labels[r][i].label : i \in DOMAIN labels[r]}
                 = {df[r][j].cell_id : j \in DOMAIN df[r]}
            /\ \A i \in DOMAIN labels[r] : \A px \in DOMAIN masks[r].data :
                  masks[r].data[px] = labels[r][i].region =>
                      canon[r].mask.data[px] = labels[r][i].label

\* the rows of a table that belong to cell k
RowsOf(t, k) == {j \in DOMAIN t : t[j].cell_id = k}

\* the sum of the intensities of the rows of the set S
RECURSIVE RatSumOver(_, _)
RatSumOver(t, S) ==
    IF S = {} THEN Rat(0, 1)
    ELSE LET j == CHOOSE x \in S : TRUE
         IN  RatAdd(t[j].intensity, RatSumOver(t, S \ {j}))

\* the c rows of S of smallest intensity (earlier row first among equals)
SmallestRows(t, S, c) ==
    {j \in S :
        Cardinality({i \in S : \/ RatLess(t[i].intensity, t[j].intensity)
                               \/ /\ RatEq(t[i].intensity, t[j].intensity)
                                  /\ i < j}) < c}

\* the c rows of S of lowest frame number
EarliestRows(t, S, c) ==
    {j \in S : Cardinality({i \in S : t[i].frame < t[j].frame}) < c}

\* the mean intensity of the rows of a non-empty set S
MeanOver(t, S) ==
    Rat(RatSumOver(t, S).num, RatSumOver(t, S).den * Cardinality(S))

C16_DeltaFFrameOrder ==
    \A r \in Reqs :
        ( /\ handler[r] \in {"import_csv", "export_csv", "export_all_csv"}
          /\ pc[r] = "done" /\ response[r].status = 200
          /\ handler[r] # "export_csv" => "dF" \notin Columns(csv_in[r]) ) =>
            \A i \in DOMAIN df[r] :
                LET t == csv_in[r]
                    S == RowsOf(t, df[r][i].cell_id)
                    c == IF Cardinality(S) < 10 THEN Cardinality(S) ELSE 10
                    b == MeanOver(t, EarliestRows(t, S, c))
                IN  b.num # 0 =>
                        RatEq(df[r][i].dF,
                              RatDiv(RatSub(df[r][i].intensity, b), b))

\* C21: /upload-mask and /analyze reduce one mask file with more than two axes
\* to the same 2-D label image, and so report the same number of cells
C21_SameAxisReduction ==
    \A r1, r2 \in Reqs :
        ( /\ handler[r1] = "upload_mask" /\ handler[r2] = "analyze"
          /\ mask_in[r1] = mask_in[r2]
          /\ masks[r1] # NoArray /\ masks[r2] # NoArray ) =>
            /\ masks[r1] = masks[r2]
            /\ Cardinality(Positive(masks[r1])) = Cardinality(Positive(masks[r2]))
            /\ ( /\ pc[r1] = "done" /\ response[r1].status = 200
                 /\ pc[r2] = "done" /\ response[r2].status = 200 ) =>
                    Len(response[r1].cell_ids) = response[r2].n_cells

-----------------------------------------------------------------------------
(* Concurrent /analyze requests and the files under masks/ and results/ *)

\* C22: the results_path and mask_path a request has been answered with name
\* files that hold that request's own records and its own mask, whatever the
\* other request does before or after
C22_OwnFilesReturned ==
    \A r \in Reqs :
        ( /\ handler[r] = "analyze"
          /\ pc[r] = "done" /\ response[r].status = 200 ) =>
            /\ files.intensity_data.exists
            /\ files.intensity_data.content = df[r]
            /\ files.latest_mask.exists
            /\ files.latest_mask.content = masks[r]

\* C23: an /analyze request that has failed, at whatever step, has neither
\* created nor overwritten masks/latest_mask.tiff or results/intensity_data.csv
C23_NoPartialResults ==
    \A r \in Reqs :
        ( /\ handler[r] = "analyze"
          /\ pc[r] = "done" /\ response[r].status # 200 ) =>
            /\ wrote[r] = {}
            /\ files.latest_mask.exists => files.latest_mask.by # r
            /\ files.intensity_data.exists => files.intensity_data.by # r

-----------------------------------------------------------------------------
(* The cells analyze_calcium_intensity iterates *)

\* C24: every cell id that analyze_calcium_intensity iterates has at least one
\* pixel in the mask it indexes the frames with (the relabeled mask when the
\* labels were relabeled), so no mean is taken over an empty selection and no
\* record has a NaN intensity
C24_NoEmptySelection ==
    \A r \in Reqs :
        (handler[r] = "analyze" /\ Canonicalized(r)) =>
            /\ \A k \in Range(canon[r].unique_cells) :
                  PixelsOf(canon[r].mask, k) # {}
            /\ \A i \in DOMAIN df[r] : ~IsNaN(df[r][i].intensity)

\* C24 witness: the sparse labels 1 and 3 were relabeled to 1 and 2, and the
\* records of both cells have a finite intensity
C24_Witness ==
    \E r \in Reqs :
        /\ Analyzed(r)
        /\ Positive(masks[r]) = {1, 3}
        /\ canon[r].mask # masks[r]
        /\ canon[r].unique_cells = <<1, 2>>
        /\ PixelsOf(canon[r].mask, 2) = PixelsOf(masks[r], 3)
        /\ \E i \in DOMAIN df[r] :
              df[r][i].cell_id = 2 /\ IsFinite(df[r][i].intensity)

\* C25: when the frame tensor has at least one frame, every cell 1..N of the
\* table has a frame-0 record (exactly one), so the smallest-values fallback is
\* not taken and the baseline of every cell is its frame-0 intensity
C25_FrameZeroAlwaysPresent ==
    \A r \in Reqs :
        (Analyzed(r) /\ frames[r].shape[1] >= 1) =>
            /\ DOMAIN baselines[r] = 1..Cardinality(Positive(masks[r]))
            /\ \A k \in DOMAIN baselines[r] :
                  /\ Cardinality(FrameZeroRows(df[r], k)) = 1
                  /\ \A j \in FrameZeroRows(df[r], k) :
                        baselines[r][k] = df[r][j].intensity

\* C25 witness: two frames, two cells; the baseline of cell 2 is its frame-0
\* intensity, which differs from its frame-1 intensity and so from what the
\* fallback would have averaged
C25_Witness ==
    \E r \in Reqs :
        /\ Analyzed(r)
        /\ frames[r].shape[1] = 2
        /\ DOMAIN baselines[r] = {1, 2}
        /\ \E i, j \in DOMAIN df[r] :
              /\ df[r][i].cell_id = 2 /\ df[r][i].frame = 0
              /\ df[r][j].cell_id = 2 /\ df[r][j].frame = 1
              /\ baselines[r][2] = df[r][i].intensity
              /\ ~RatEq(df[r][i].intensity, df[r][j].intensity)

-----------------------------------------------------------------------------
(* Concurrent plot requests *)

\* C26: every plot request that has finished, however its steps interleave
\* with the other request's and also when both took their file name in the same
\* second, read and removed the temporary file without error and returns the
\* image it rendered itself
C26_NoPlotInterference ==
    \A r \in Reqs :
        (handler[r] \in PlotHandlers /\ pc[r] = "done") =>
            /\ response[r].status = 200
            /\ response[r].plot = Image(r)

====
